---- MODULE Spec2Model ----
(***************************************************************************)
(* A/B Test Revenue & ABV Projection Tool (src/app.py).                    *)
(*                                                                         *)
(* The Streamlit script is modelled as a state machine over its sidebar    *)
(* widgets, st.session_state and the rendered results area.  One action is *)
(* one script run; the run of "Reset Inputs" ends at st.rerun() and the    *)
(* run that st.rerun() asks for is a step of its own.                      *)
(*                                                                         *)
(* Numbers.  The script computes in IEEE-754 binary64 (Python float and    *)
(* numpy.float64) and so does the model: a float is a record               *)
(*     [s |-> sign (1 or -1), e |-> exponent, m |-> mantissa]              *)
(* of value s * m * 2^e, whose mantissa is a 53-bit natural number held as *)
(* four 14-bit limbs, least significant first, with its top bit set unless *)
(* the value is zero.  +, -, *, / and sqrt round to nearest, ties to even, *)
(* as the hardware does.  Infinities and subnormal numbers do not arise    *)
(* for the inputs explored, and NaN arises only where the script writes    *)
(* np.nan.                                                                 *)
(*                                                                         *)
(* Widget values are integers: the two conversion rates count tenths of a  *)
(* percent (the step of the widget), the money fields whole dollars, the   *)
(* rest are the integers of the widgets.                                   *)
(*                                                                         *)
(* The one function that is not computed bit for bit is the normal         *)
(* survival function: a p value is an integer in 1/10000, rounded down to  *)
(* the grid of norm_sf2, whose cell boundaries are floats, so that the     *)
(* comparison p < 0.05 the script makes is decided as the script decides   *)
(* it.                                                                     *)
(***************************************************************************)
EXTENDS Integers, Sequences, TLC

VARIABLES
    widgets,    \* the sidebar inputs of the current script run (lines 32-53)
    session,    \* st.session_state, a record whose fields are its keys
    screen,     \* what the results display area shows (lines 142-218)
    last_run,   \* history: <<inputs>> of the latest Run since the session
                \* was last cleared, << >> when there is none
    rerun,      \* TRUE from st.rerun() (line 64) until the next script run
    rule_args,  \* inputs handed to the recommendation rule (lines 204-218)
    rule_out    \* the category it produced for rule_args, "none" before

vars == <<widgets, session, screen, last_run, rerun, rule_args, rule_out>>

----------------------------------------------------------------------------
(* Bounds of the model *)

MaxHorizon == 6

(* Program constants *)

\* the 0.05 significance threshold, in 1/10000
Alpha == 500

----------------------------------------------------------------------------
(* Natural numbers of more than 31 bits: sequences of 14-bit limbs, least  *)
(* significant first                                                       *)

B == 2^14

Limb(a, i) == IF 1 <= i /\ i <= Len(a) THEN a[i] ELSE 0

Wide(a) == [i \in 1..8 |-> Limb(a, i)]

\* the limbs of the number whose i-th digit is v[i], any integers
RECURSIVE Carry(_, _, _)
Carry(v, i, c) ==
    IF i > Len(v) THEN << >>
    ELSE <<(v[i] + c) % B>> \o Carry(v, i + 1, (v[i] + c) \div B)

BAdd(a, b) == Carry([i \in 1..Len(a) |-> a[i] + Limb(b, i)], 1, 0)

\* a - b for a >= b
BSub(a, b) == Carry([i \in 1..Len(a) |-> a[i] - Limb(b, i)], 1, 0)

\* the product of two 4-limb numbers, 8 limbs
BMul(a, b) ==
    Carry(<<a[1] * b[1],
            a[1] * b[2] + a[2] * b[1],
            a[1] * b[3] + a[2] * b[2] + a[3] * b[1],
            a[1] * b[4] + a[2] * b[3] + a[3] * b[2] + a[4] * b[1],
            a[2] * b[4] + a[3] * b[3] + a[4] * b[2],
            a[3] * b[4] + a[4] * b[3],
            a[4] * b[4],
            0>>, 1, 0)

RECURSIVE BCmpFrom(_, _, _)
BCmpFrom(a, b, i) ==
    IF i = 0 THEN 0
    ELSE IF Limb(a, i) > Limb(b, i) THEN 1
    ELSE IF Limb(a, i) < Limb(b, i) THEN -1
    ELSE BCmpFrom(a, b, i - 1)

\* -1, 0 or 1 as a <, = or > b
BCmp(a, b) == BCmpFrom(a, b, IF Len(a) >= Len(b) THEN Len(a) ELSE Len(b))

\* floor(a / 2^k), n limbs
BShr(a, k, n) ==
    LET q == k \div 14
        r == 2^(k % 14)
    IN  [i \in 1..n |->
            (Limb(a, i + q) \div r) + (Limb(a, i + q + 1) % r) * (B \div r)]

\* a * 2^k, n limbs
BShl(a, k, n) ==
    LET q == k \div 14
        r == 2^(k % 14)
    IN  [i \in 1..n |->
            (Limb(a, i - q) % (B \div r)) * r
              + (Limb(a, i - q - 1) \div (B \div r))]

RECURSIVE BTop(_, _)
BTop(a, i) == IF i = 0 \/ a[i] # 0 THEN i ELSE BTop(a, i - 1)

\* the number of bits of a limb
BitLenSmall(x) ==
    IF x >= 128
    THEN IF x >= 2048
         THEN (IF x >= 8192 THEN 14 ELSE IF x >= 4096 THEN 13 ELSE 12)
         ELSE IF x >= 512 THEN (IF x >= 1024 THEN 11 ELSE 10)
         ELSE IF x >= 256 THEN 9 ELSE 8
    ELSE IF x >= 8
         THEN IF x >= 32 THEN (IF x >= 64 THEN 7 ELSE 6)
              ELSE IF x >= 16 THEN 5 ELSE 4
         ELSE IF x >= 2 THEN (IF x >= 4 THEN 3 ELSE 2) ELSE x

BBitLen(a) ==
    LET t == BTop(a, Len(a))
    IN  IF t = 0 THEN 0 ELSE 14 * (t - 1) + BitLenSmall(a[t])

BBit(a, k) == (Limb(a, k \div 14 + 1) \div 2^(k % 14)) % 2

\* some bit of a below bit k is set
BLowNonzero(a, k) ==
    \E i \in 1..(k \div 14 + 1) :
        IF i <= k \div 14 THEN Limb(a, i) # 0
        ELSE Limb(a, i) % 2^(k % 14) # 0

RECURSIVE QuotFix(_, _, _)
QuotFix(R, D, q) ==
    IF BCmp(R, D) >= 0 THEN QuotFix(BSub(R, D), D, q + 1)
    ELSE [q |-> q, r |-> R]

\* floor(R / D) and R mod D for D in [2^52, 2^53) and R < D * 2^14: a
\* quotient digit estimated from the leading bits, then corrected
QuotDigit(R, D) ==
    LET Rt == R[5] * 2^19 + R[4] * 2^5 + R[3] \div 2^9
        Dt == D[4] * 2^5 + D[3] \div 2^9
        q0 == Rt \div (Dt + 1)
    IN  QuotFix(Carry([i \in 1..5 |-> R[i] - Limb(D, i) * q0], 1, 0), D, q0)

RECURSIVE BDivStep(_, _, _, _, _)
BDivStep(N, D, i, R, Q) ==
    IF i = 0 THEN [q |-> Q, r |-> R]
    ELSE LET d == QuotDigit(<<N[i]>> \o R, D)
         IN  BDivStep(N, D, i - 1, SubSeq(d.r, 1, 4), <<d.q>> \o Q)

\* floor(N / D) and N mod D for D in [2^52, 2^53) and N < D * 2^56
BDivMod(N, D) == BDivStep(N, D, 4, SubSeq(N, 5, 8), << >>)

RECURSIVE SqrtSearch(_, _, _)
SqrtSearch(x, lo, hi) ==
    IF lo >= hi THEN lo
    ELSE LET mid == (lo + hi + 1) \div 2
         IN  IF mid * mid <= x THEN SqrtSearch(x, mid, hi)
                               ELSE SqrtSearch(x, lo, mid - 1)

RECURSIVE Newton(_, _)
Newton(N, x) ==
    LET y == BShr(BAdd(x, BDivMod(N, x).q), 1, 4)
    IN  IF BCmp(y, x) >= 0 THEN x ELSE Newton(N, y)

\* floor(sqrt(N)) for N in [2^104, 2^106): Newton's iteration from above,
\* started at the root of the leading 30 bits
BSqrt(N) ==
    LET t  == N[6] \div 2^6 + N[7] * 2^8 + N[8] * 2^22
        s1 == SqrtSearch(t, 2^14, 2^15 - 1) + 1
    IN  Newton(N, IF s1 >= 2^15 THEN <<B - 1, B - 1, B - 1, 2^11 - 1>>
                  ELSE <<0, 0, (s1 % 2^4) * 2^10, s1 \div 2^4>>)

----------------------------------------------------------------------------
(* Python float / numpy.float64 *)

Zero == [s |-> 1, e |-> 0, m |-> <<0, 0, 0, 0>>]

\* np.nan
NaN == [s |-> 0, e |-> 0, m |-> <<0, 0, 0, 0>>]

IsZero(x) == x.m = <<0, 0, 0, 0>>

\* s * N * 2^e for a natural number N # 0 of up to 8 limbs, rounded to the
\* nearest float, ties to even; sticky says that the exact value is a
\* little above s * N * 2^e
Round(s, e, N, sticky) ==
    LET L == BBitLen(N)
    IN  IF L <= 53
        THEN [s |-> s, e |-> e - (53 - L), m |-> BShl(N, 53 - L, 4)]
        ELSE LET sh == L - 53
                 Q  == BShr(N, sh, 4)
                 up == /\ BBit(N, sh - 1) = 1
                       /\ (sticky \/ BLowNonzero(N, sh - 1) \/ Q[1] % 2 = 1)
                 M  == IF up THEN BAdd(Q, <<1>>) ELSE Q
             IN  IF M = <<0, 0, 0, 0>> \/ M[4] >= 2^11
                 THEN [s |-> s, e |-> e + sh + 1, m |-> <<0, 0, 0, 2^10>>]
                 ELSE [s |-> s, e |-> e + sh, m |-> M]

\* float(n) for an int n, |n| < 2^31
FInt(n) ==
    IF n = 0 THEN Zero
    ELSE LET a == IF n < 0 THEN -n ELSE n
         IN  Round(IF n < 0 THEN -1 ELSE 1, 0,
                   <<a % B, (a \div B) % B, a \div (B * B)>>, FALSE)

FNeg(x) == [x EXCEPT !.s = -x.s]

\* abs(x)
FAbs(x) == [x EXCEPT !.s = 1]

\* x + y
FAdd(x, y) ==
    IF IsZero(x) THEN (IF IsZero(y) /\ x.s # y.s THEN Zero ELSE y)
    ELSE IF IsZero(y) THEN x
    ELSE LET hi == IF x.e >= y.e THEN x ELSE y
             lo == IF x.e >= y.e THEN y ELSE x
             d  == hi.e - lo.e
         IN  IF d >= 55 THEN hi
             ELSE LET H == BShl(hi.m, d, 8)
                      c == BCmp(H, lo.m)
                  IN  IF hi.s = lo.s
                      THEN Round(hi.s, lo.e, BAdd(H, lo.m), FALSE)
                      ELSE IF c = 0 THEN Zero
                      ELSE IF c > 0
                      THEN Round(hi.s, lo.e, BSub(H, lo.m), FALSE)
                      ELSE Round(lo.s, lo.e, BSub(Wide(lo.m), H), FALSE)

\* x - y
FSub(x, y) == FAdd(x, FNeg(y))

\* x * y
FMul(x, y) ==
    IF IsZero(x) \/ IsZero(y) THEN [Zero EXCEPT !.s = x.s * y.s]
    ELSE Round(x.s * y.s, x.e + y.e, BMul(x.m, y.m), FALSE)

\* x / y for y # 0
FDiv(x, y) ==
    IF IsZero(x) THEN [Zero EXCEPT !.s = x.s * y.s]
    ELSE LET d == BDivMod(BShl(x.m, 55, 8), y.m)
         IN  Round(x.s * y.s, x.e - y.e - 55, d.q, d.r # <<0, 0, 0, 0>>)

\* np.sqrt(x) for x >= 0
np_sqrt(x) ==
    IF IsZero(x) THEN x
    ELSE LET k == IF x.e % 2 = 0 THEN 52 ELSE 53
             N == BShl(x.m, k, 8)
             S == BSqrt(N)
             r == BSub(N, BMul(S, S))
             g == IF BCmp(r, S) > 0 THEN 1 ELSE 0
         IN  Round(1, (x.e - k) \div 2 - 1,
                   BAdd(BShl(S, 1, 5), <<g>>), r # <<0, 0, 0, 0, 0, 0, 0, 0>>)

\* -1, 0 or 1 as x <, == or > y
FCmp(x, y) ==
    IF IsZero(x) /\ IsZero(y) THEN 0
    ELSE IF IsZero(x) THEN -y.s
    ELSE IF IsZero(y) THEN x.s
    ELSE IF x.s # y.s THEN x.s
    ELSE IF x.e # y.e THEN (IF x.e > y.e THEN x.s ELSE -x.s)
    ELSE x.s * BCmp(x.m, y.m)

FLt(x, y) == FCmp(x, y) < 0

FLe(x, y) == FCmp(x, y) <= 0

FEq(x, y) == FCmp(x, y) = 0

\* max(a, b) of Python: b when a < b, else a
max(a, b) == IF FLt(a, b) THEN b ELSE a

\* stats.norm.ppf(0.975) = 1.959963984540054
ppf975 == [s |-> 1, e |-> -52, m |-> <<16260, 1979, 51, 2007>>]

\* for each cell of the p value grid, the largest |z| whose p value
\* stats.norm.sf(|z|) * 2 is in that cell or above
SfGrid ==
    <<<<[s |-> 1, e |-> -106, m |-> <<9990, 16344, 6449, 1283>>], 10000>>,
                                                   \* 6.957291061679418e-17
      <<[s |-> 1, e |-> -55, m |-> <<4817, 7738, 6844, 1029>>], 9000>>,
                                                   \* 0.12566134685507405
      <<[s |-> 1, e |-> -54, m |-> <<2907, 4737, 11628, 1037>>], 8000>>,
                                                   \* 0.25334710313579983
      <<[s |-> 1, e |-> -54, m |-> <<3152, 12723, 4466, 1578>>], 7000>>,
                                                   \* 0.3853204664075678
      <<[s |-> 1, e |-> -53, m |-> <<1532, 5643, 15929, 1073>>], 6000>>,
                                                   \* 0.5244005127080409
      <<[s |-> 1, e |-> -53, m |-> <<2634, 7498, 5816, 1381>>], 5000>>,
                                                   \* 0.6744897501960818
      <<[s |-> 1, e |-> -53, m |-> <<4916, 7400, 10490, 1723>>], 4000>>,
                                                   \* 0.8416212335729143
      <<[s |-> 1, e |-> -52, m |-> <<15211, 13846, 5042, 1061>>], 3000>>,
                                                   \* 1.0364333894937896
      <<[s |-> 1, e |-> -52, m |-> <<11571, 7049, 5059, 1312>>], 2000>>,
                                                   \* 1.2815515655446006
      <<[s |-> 1, e |-> -52, m |-> <<10942, 9629, 5408, 1684>>], 1000>>,
                                                   \* 1.6448536269514729
      <<[s |-> 1, e |-> -52, m |-> <<16262, 1979, 51, 2007>>], Alpha>>,
                                                   \* 1.9599639845400545
      <<[s |-> 1, e |-> -51, m |-> <<4449, 4954, 13510, 1318>>], 100>>,
                                                   \* 2.575829303548901
      <<[s |-> 1, e |-> -51, m |-> <<14529, 14155, 12282, 1684>>], 10>> >>
                                                   \* 3.290526731491895

RECURSIVE SfCell(_, _)
SfCell(a, i) ==
    IF i > Len(SfGrid) THEN 0
    ELSE IF IsZero(a) \/ FLe(a, SfGrid[i][1]) THEN SfGrid[i][2]
    ELSE SfCell(a, i + 1)

\* stats.norm.sf(abs(z)) * 2 in 1/10000, rounded down to the grid 1, .9,
\* .8, .7, .6, .5, .4, .3, .2, .1, .05, .01, .001, 0
norm_sf2(z) == SfCell(FAbs(z), 1)

RECURSIVE CumFrom(_, _, _)
CumFrom(s, i, out) ==
    IF i > Len(s) THEN out
    ELSE CumFrom(s, i + 1, Append(out, FAdd(out[i - 1], s[i])))

\* np.cumsum(s): a running sum, added left to right
np_cumsum(s) == IF Len(s) = 0 THEN << >> ELSE CumFrom(s, 2, <<s[1]>>)

Last(s) == s[Len(s)]

----------------------------------------------------------------------------
(* Calculations of one Run (lines 68-91): one operator for each variable   *)
(* the script assigns, of the variables its right-hand side reads          *)

\* the value of a number_input stepping by 0.1, for k tenths: the float k/10
percent_input(k) == FDiv(FInt(k), FInt(10))

baseline_rate(baseline_conv) == FDiv(baseline_conv, FInt(100))

variant_rate(variant_conv) == FDiv(variant_conv, FInt(100))

decay_rate(decay_rate_pct) == FDiv(FInt(decay_rate_pct), FInt(100))

baseline_conversions_test(rate, baseline_users) ==
    max(FInt(1), FMul(rate, FInt(baseline_users)))

variant_conversions_test(rate, variant_users) ==
    max(FInt(1), FMul(rate, FInt(variant_users)))

cvr_abs_uplift(v_rate, b_rate) == FSub(v_rate, b_rate)

cvr_rel_uplift_pct(uplift, b_rate) ==
    IF FLt(Zero, b_rate) THEN FMul(FDiv(uplift, b_rate), FInt(100)) ELSE NaN

p_pool(b_conversions, v_conversions, baseline_users, variant_users) ==
    FDiv(FAdd(b_conversions, v_conversions),
         FInt(baseline_users + variant_users))

se_pool_cvr(p, baseline_users, variant_users) ==
    IF FLt(Zero, p)
    THEN np_sqrt(FMul(FMul(p, FSub(FInt(1), p)),
                      FAdd(FDiv(FInt(1), FInt(baseline_users)),
                           FDiv(FInt(1), FInt(variant_users)))))
    ELSE Zero

z_score_cvr(uplift, se) == IF FLt(Zero, se) THEN FDiv(uplift, se) ELSE Zero

p_value_cvr(z) == norm_sf2(z)

ci_cvr_low(uplift, se) == FSub(uplift, FMul(ppf975, se))

ci_cvr_high(uplift, se) == FAdd(uplift, FMul(ppf975, se))

abv_abs_uplift(variant_avg_revenue, baseline_avg_revenue) ==
    FSub(variant_avg_revenue, baseline_avg_revenue)

abv_rel_uplift_pct(uplift, baseline_avg_revenue) ==
    IF FLt(Zero, baseline_avg_revenue)
    THEN FMul(FDiv(uplift, baseline_avg_revenue), FInt(100))
    ELSE NaN

\* x**2 is x * x, which Python's pow returns for the values explored
se_pool_abv(baseline_std_dev, b_conversions, variant_std_dev, v_conversions) ==
    np_sqrt(FAdd(FDiv(FMul(baseline_std_dev, baseline_std_dev), b_conversions),
                 FDiv(FMul(variant_std_dev, variant_std_dev), v_conversions)))

z_score_abv(uplift, se) == IF FLt(Zero, se) THEN FDiv(uplift, se) ELSE Zero

p_value_abv(z) == norm_sf2(z)

ci_abv_low(uplift, se) == FSub(uplift, FMul(ppf975, se))

ci_abv_high(uplift, se) == FAdd(uplift, FMul(ppf975, se))

----------------------------------------------------------------------------
(* Projection (lines 94-121).  c holds the variables of the Run that       *)
(* calculate_cumulative_revenue reads from its enclosing scope:            *)
(* daily_traffic, baseline_rate, baseline_avg_revenue, forecast_period and *)
(* decay_rate.                                                             *)

\* mutant: day / forecast_period, the "- 1" forgotten
daily_decay_factor_whole_period(forecast_period, day) ==
    IF forecast_period > 1 THEN FDiv(FInt(day), FInt(forecast_period))
    ELSE Zero

daily_decay_factor(forecast_period, day) ==
    IF forecast_period > 1 THEN FDiv(FInt(day), FInt(forecast_period - 1))
    ELSE Zero

\* mutant: decay_rate left out, the lift always decays to nothing
decayed_lift_no_rate(initial_daily_lift, rate, factor) ==
    FMul(initial_daily_lift, FSub(FInt(1), factor))

decayed_lift(initial_daily_lift, rate, factor) ==
    FMul(initial_daily_lift, FSub(FInt(1), FMul(rate, factor)))

\* daily_traffic * baseline_rate * baseline_avg_revenue (lines 98, 103, 107)
control_daily(c) ==
    FMul(FMul(FInt(c.daily_traffic), c.baseline_rate), c.baseline_avg_revenue)

daily_variant_revenue(c, initial_daily_lift, day) ==
    FAdd(control_daily(c),
         decayed_lift(initial_daily_lift, c.decay_rate,
                      daily_decay_factor(c.forecast_period, day)))

calculate_cumulative_revenue(c, cvr, abv) ==
    LET daily_rev          == FMul(FMul(FInt(c.daily_traffic), cvr), abv)
        initial_daily_lift == FSub(daily_rev, control_daily(c))
    IN  np_cumsum([i \in 1..c.forecast_period |->
                      daily_variant_revenue(c, initial_daily_lift, i - 1)])

control_cumulative(c) ==
    np_cumsum([i \in 1..c.forecast_period |-> control_daily(c)])

variant_cumulative_mean(c, v_rate, variant_avg_revenue) ==
    calculate_cumulative_revenue(c, v_rate, variant_avg_revenue)

variant_cumulative_lower(c, ci_low, variant_avg_revenue) ==
    calculate_cumulative_revenue(c, FAdd(c.baseline_rate, ci_low),
                                 variant_avg_revenue)

variant_cumulative_upper(c, ci_high, variant_avg_revenue) ==
    calculate_cumulative_revenue(c, FAdd(c.baseline_rate, ci_high),
                                 variant_avg_revenue)

\* Date holds day offsets from pd.Timestamp.today()
projection_df(forecast_period, control, mean, lower, upper) ==
    [Date        |-> [i \in 1..forecast_period |-> i - 1],
     Control     |-> control,
     Variant     |-> mean,
     Lower_Bound |-> lower,
     Upper_Bound |-> upper]

\* The Run, block by block.  Each block takes the variables assigned so
\* far as a record r and returns r with the variables it assigns.

\* lines 68-72
rates_and_conversions(w, r) ==
    r @@ [baseline_conversions_test |->
              baseline_conversions_test(r.baseline_rate, w.baseline_users),
          variant_conversions_test |->
              variant_conversions_test(r.variant_rate, w.variant_users)]

\* lines 75-77
cvr_uplift(w, r) ==
    r @@ [cvr_abs_uplift     |-> cvr_abs_uplift(r.variant_rate, r.baseline_rate),
          p_pool             |-> p_pool(r.baseline_conversions_test,
                                        r.variant_conversions_test,
                                        w.baseline_users, w.variant_users)]

\* lines 76, 78
cvr_error(w, r) ==
    r @@ [cvr_rel_uplift_pct |-> cvr_rel_uplift_pct(r.cvr_abs_uplift,
                                                    r.baseline_rate),
          se_pool_cvr        |-> se_pool_cvr(r.p_pool, w.baseline_users,
                                             w.variant_users)]

\* lines 79, 81-82
cvr_test(r) ==
    r @@ [z_score_cvr |-> z_score_cvr(r.cvr_abs_uplift, r.se_pool_cvr),
          ci_cvr_low  |-> ci_cvr_low(r.cvr_abs_uplift, r.se_pool_cvr),
          ci_cvr_high |-> ci_cvr_high(r.cvr_abs_uplift, r.se_pool_cvr)]

\* lines 85-87
abv_error(w, r) ==
    r @@ [abv_abs_uplift |-> abv_abs_uplift(FInt(w.variant_avg_revenue),
                                            FInt(w.baseline_avg_revenue)),
          se_pool_abv    |-> se_pool_abv(FInt(w.baseline_std_dev),
                                         r.baseline_conversions_test,
                                         FInt(w.variant_std_dev),
                                         r.variant_conversions_test)]

\* lines 86, 88, 90-91
abv_test(w, r) ==
    r @@ [abv_rel_uplift_pct |-> abv_rel_uplift_pct(r.abv_abs_uplift,
                                     FInt(w.baseline_avg_revenue)),
          z_score_abv |-> z_score_abv(r.abv_abs_uplift, r.se_pool_abv),
          ci_abv_low  |-> ci_abv_low(r.abv_abs_uplift, r.se_pool_abv),
          ci_abv_high |-> ci_abv_high(r.abv_abs_uplift, r.se_pool_abv)]

\* lines 80, 89
p_values(r) ==
    r @@ [p_value_cvr |-> p_value_cvr(r.z_score_cvr),
          p_value_abv |-> p_value_abv(r.z_score_abv)]

\* the variables calculate_cumulative_revenue reads from the Run
scope(w, r) ==
    [daily_traffic        |-> w.daily_traffic,
     baseline_rate        |-> r.baseline_rate,
     baseline_avg_revenue |-> FInt(w.baseline_avg_revenue),
     forecast_period      |-> w.forecast_period,
     decay_rate           |-> r.decay_rate]

\* lines 107-110
projection(w, r) ==
    r @@ [control_cumulative |-> control_cumulative(scope(w, r)),
          variant_cumulative_mean |->
              variant_cumulative_mean(scope(w, r), r.variant_rate,
                                      FInt(w.variant_avg_revenue)),
          variant_cumulative_lower |->
              variant_cumulative_lower(scope(w, r), r.ci_cvr_low,
                                       FInt(w.variant_avg_revenue)),
          variant_cumulative_upper |->
              variant_cumulative_upper(scope(w, r), r.ci_cvr_high,
                                       FInt(w.variant_avg_revenue))]

\* lines 112-121
projection_results(w, r) ==
    r @@ [proj_revenue_diff_lower |->
              FSub(Last(r.variant_cumulative_lower), Last(r.control_cumulative)),
          proj_revenue_diff_upper |->
              FSub(Last(r.variant_cumulative_upper), Last(r.control_cumulative)),
          projection_df |->
              projection_df(w.forecast_period, r.control_cumulative,
                            r.variant_cumulative_mean,
                            r.variant_cumulative_lower,
                            r.variant_cumulative_upper)]

\* every variable of the Run of lines 68-121 on the inputs w
Calculations(w) ==
    projection_results(w,
      projection(w,
        p_values(
          abv_test(w,
            abv_error(w,
              cvr_test(
                cvr_error(w,
                  cvr_uplift(w,
                    rates_and_conversions(w,
                      [baseline_rate |->
                           baseline_rate(percent_input(w.baseline_conv)),
                       variant_rate  |->
                           variant_rate(percent_input(w.variant_conv)),
                       decay_rate    |-> decay_rate(w.decay_rate_pct)])))))))))

\* the dictionary handed to st.session_state.update (lines 124-138)
results_dict(w, r) ==
    [results_calculated      |-> TRUE,
     p_value_cvr             |-> r.p_value_cvr,
     ci_cvr_low              |-> r.ci_cvr_low,
     ci_cvr_high             |-> r.ci_cvr_high,
     p_value_abv             |-> r.p_value_abv,
     ci_abv_low              |-> r.ci_abv_low,
     ci_abv_high             |-> r.ci_abv_high,
     cvr_abs_uplift          |-> r.cvr_abs_uplift,
     cvr_rel_uplift_pct      |-> r.cvr_rel_uplift_pct,
     abv_abs_uplift          |-> r.abv_abs_uplift,
     abv_rel_uplift_pct      |-> r.abv_rel_uplift_pct,
     proj_baseline_revenue   |-> Last(r.control_cumulative),
     proj_variant_revenue    |-> Last(r.variant_cumulative_mean),
     proj_revenue_diff       |-> FSub(Last(r.variant_cumulative_mean),
                                      Last(r.control_cumulative)),
     proj_revenue_diff_lower |-> r.proj_revenue_diff_lower,
     proj_revenue_diff_upper |-> r.proj_revenue_diff_upper,
     projection_df           |-> r.projection_df,
     decay_rate_pct          |-> w.decay_rate_pct,
     forecast_period         |-> w.forecast_period,
     daily_traffic           |-> w.daily_traffic]

\* what a Run on the inputs w stores
Results(w) == results_dict(w, Calculations(w))

----------------------------------------------------------------------------
(* Session state and the results display area *)

\* mutant: a reset that only hides the results
session_flag_cleared == [session EXCEPT !.results_calculated = FALSE]

\* st.session_state of a new browser session: no key
session_new == [k \in {} |-> FALSE]

\* st.session_state.clear()
session_clear == session_new

\* lines 15-16, run at the top of every script run
init_session_state(s) ==
    IF "results_calculated" \in DOMAIN s
    THEN s
    ELSE [k \in DOMAIN s \cup {"results_calculated"} |->
             IF k = "results_calculated" THEN FALSE ELSE s[k]]

\* st.session_state.update(d)
session_update(s, d) ==
    [k \in DOMAIN s \cup DOMAIN d |-> IF k \in DOMAIN d THEN d[k] ELSE s[k]]

\* st.session_state.get('results_calculated')
results_shown(s) ==
    IF "results_calculated" \in DOMAIN s THEN s.results_calculated ELSE FALSE

\* mutant: "<=" for "<"
significant_le(p, delta) == p <= Alpha /\ FLt(Zero, delta)

\* significant(p, delta), lines 204-205
significant(p, delta) == p < Alpha /\ FLt(Zero, delta)

\* lines 213-218
Recommendation(p_cvr, uplift_cvr, p_abv, uplift_abv) ==
    LET cvr_sig == significant(p_cvr, uplift_cvr)
        abv_sig == significant(p_abv, uplift_abv)
    IN  IF cvr_sig /\ abv_sig THEN "ROLL_OUT"
        ELSE IF cvr_sig \/ abv_sig THEN "CAUTION"
        ELSE "DO_NOT_ROLL_OUT"

\* lines 142-218: the info box, or the results read back from the session
Render(s) ==
    IF ~results_shown(s)
    THEN [view |-> "info"]
    ELSE [view            |-> "results",
          cvr             |-> <<s.cvr_rel_uplift_pct, s.cvr_abs_uplift,
                                s.p_value_cvr, s.ci_cvr_low, s.ci_cvr_high>>,
          abv             |-> <<s.abv_rel_uplift_pct, s.abv_abs_uplift,
                                s.p_value_abv, s.ci_abv_low, s.ci_abv_high>>,
          header          |-> <<s.forecast_period, s.daily_traffic,
                                s.decay_rate_pct>>,
          revenue         |-> <<s.proj_baseline_revenue,
                                s.proj_variant_revenue, s.proj_revenue_diff>>,
          chart           |-> s.projection_df,
          lift_band       |-> <<s.proj_revenue_diff_lower,
                                s.proj_revenue_diff_upper>>,
          recommendation  |-> Recommendation(s.p_value_cvr, s.cvr_abs_uplift,
                                             s.p_value_abv, s.abv_abs_uplift)]

----------------------------------------------------------------------------
(* Input values the model explores *)

Fields ==
    {"baseline_conv", "baseline_users", "variant_conv", "variant_users",
     "baseline_avg_revenue", "baseline_std_dev", "variant_avg_revenue",
     "variant_std_dev", "daily_traffic", "forecast_period", "decay_rate_pct"}

\* inputs of the calculation engine
CalcValues ==
    [baseline_conv        |-> {0, 200, 1000},
     baseline_users       |-> {1, 10},
     variant_conv         |-> {0, 200, 1000},
     variant_users        |-> {1, 10},
     baseline_avg_revenue |-> {0, 2},
     baseline_std_dev     |-> {0, 1},
     variant_avg_revenue  |-> {0, 2, 1048576},
     variant_std_dev      |-> {0},
     daily_traffic        |-> {1, 5000},
     forecast_period      |-> {1, 2, MaxHorizon},
     decay_rate_pct       |-> {0, 50, 100}]

\* inputs the user moves between in the interactive session
AppValues ==
    [baseline_conv        |-> {100},
     baseline_users       |-> {10},
     variant_conv         |-> {100, 500, 1000},
     variant_users        |-> {10},
     baseline_avg_revenue |-> {2},
     baseline_std_dev     |-> {1},
     variant_avg_revenue  |-> {2, 5},
     variant_std_dev      |-> {1},
     daily_traffic        |-> {3},
     forecast_period      |-> 1..2,
     decay_rate_pct       |-> {0, 50}]

WidgetStates(V) ==
    [baseline_conv        : V.baseline_conv,
     baseline_users       : V.baseline_users,
     variant_conv         : V.variant_conv,
     variant_users        : V.variant_users,
     baseline_avg_revenue : V.baseline_avg_revenue,
     baseline_std_dev     : V.baseline_std_dev,
     variant_avg_revenue  : V.variant_avg_revenue,
     variant_std_dev      : V.variant_std_dev,
     daily_traffic        : V.daily_traffic,
     forecast_period      : V.forecast_period,
     decay_rate_pct       : V.decay_rate_pct]

----------------------------------------------------------------------------
(* The interactive session: one action per script run *)

NoArgs == [p_cvr |-> 0, uplift_cvr |-> Zero, p_abv |-> 0, uplift_abv |-> Zero]

RuleIdle == rule_args = NoArgs /\ rule_out = "none"

\* first script run of a session: no button pressed, the info box is shown
Init ==
    /\ widgets \in WidgetStates(AppValues)
    /\ session = init_session_state(session_new)
    /\ screen = Render(session)
    /\ last_run = << >>
    /\ rerun = FALSE
    /\ RuleIdle

\* a sidebar widget changes: the script runs with both buttons False
ChangeInput ==
    \E f \in Fields : \E v \in AppValues[f] :
        /\ v # widgets[f]
        /\ widgets' = [widgets EXCEPT ![f] = v]
        /\ session' = init_session_state(session)
        /\ screen' = Render(session')
        /\ rerun' = FALSE
        /\ UNCHANGED <<last_run, rule_args, rule_out>>

\* "Run Calculation" (lines 66-138), then the display area
RunCalculation ==
    /\ session' = session_update(init_session_state(session), Results(widgets))
    /\ screen' = Render(session')
    /\ last_run' = <<widgets>>
    /\ rerun' = FALSE
    /\ UNCHANGED <<widgets, rule_args, rule_out>>

\* "Reset Inputs" (lines 62-64): the session is cleared and st.rerun() stops
\* this script run before the display area (lines 142-218), so the page
\* keeps what it showed.  The script assigns no widget.
ResetInputs ==
    /\ session' = session_clear
    /\ last_run' = << >>
    /\ rerun' = TRUE
    /\ UNCHANGED <<widgets, screen, rule_args, rule_out>>

\* the script run st.rerun() asked for, when no widget event came with it;
\* when one did, that run is a ChangeInput, RunCalculation or ResetInputs
Rerun ==
    /\ rerun
    /\ session' = init_session_state(session)
    /\ screen' = Render(session')
    /\ rerun' = FALSE
    /\ UNCHANGED <<widgets, last_run, rule_args, rule_out>>

Next == ChangeInput \/ RunCalculation \/ ResetInputs \/ Rerun

Spec == Init /\ [][Next]_vars

----------------------------------------------------------------------------
(* The calculation engine on its own: any inputs, one Run of each *)

InitCalc ==
    /\ widgets \in WidgetStates(CalcValues)
    /\ session = init_session_state(session_new)
    /\ screen = Render(session)
    /\ last_run = << >>
    /\ rerun = FALSE
    /\ RuleIdle

\* a second Run on the same inputs computes the same values again
RunOnce == last_run = << >> /\ RunCalculation

NextCalc == RunOnce

SpecCalc == InitCalc /\ [][NextCalc]_vars

----------------------------------------------------------------------------
(* The recommendation rule on its own *)

PValues == {0, 10, Alpha - 1, Alpha, Alpha + 1, 10000}

Deltas == {FInt(-1), Zero, FInt(1)}

InitRule ==
    /\ widgets \in WidgetStates(AppValues)
    /\ session = init_session_state(session_new)
    /\ screen = Render(session)
    /\ last_run = << >>
    /\ rerun = FALSE
    /\ rule_args \in [p_cvr : PValues, uplift_cvr : Deltas,
                      p_abv : PValues, uplift_abv : Deltas]
    /\ rule_out = "none"

Recommend ==
    /\ rule_out = "none"
    /\ rule_out' = Recommendation(rule_args.p_cvr, rule_args.uplift_cvr,
                                  rule_args.p_abv, rule_args.uplift_abv)
    /\ UNCHANGED <<widgets, session, screen, last_run, rerun, rule_args>>

NextRule == Recommend

SpecRule == InitRule /\ [][NextRule]_vars

----------------------------------------------------------------------------
(* Properties *)

\* a Run on the inputs now in the widgets has completed
Ran == results_shown(session) /\ last_run = <<widgets>>

\* the quantities the statements are written in, of the inputs of the Run
rate_c == baseline_rate(percent_input(widgets.baseline_conv))

rate_v == variant_rate(percent_input(widgets.variant_conv))

count_c == widgets.baseline_users

count_v == widgets.variant_users

\* rate * visitor_count, the effective observation count before lines 71-72
n_c == FMul(rate_c, FInt(count_c))

n_v == FMul(rate_v, FInt(count_v))

\* both arms have at least one conversion, so that lines 71-72 leave the
\* conversion counts as they are
Unclamped == FLe(FInt(1), n_c) /\ FLe(FInt(1), n_v)

\* the variables of the Run that calculate_cumulative_revenue reads
Scope ==
    scope(widgets, [baseline_rate |-> rate_c,
                    decay_rate    |-> decay_rate(widgets.decay_rate_pct)])

base_daily == control_daily(Scope)

\* initial_daily_lift of the mean projection (lines 97-98)
initial_daily_lift ==
    FSub(FMul(FMul(FInt(widgets.daily_traffic), rate_v),
              FInt(widgets.variant_avg_revenue)),
         base_daily)

\* base_daily + initial_daily_lift, as a float
VariantDaily == FAdd(base_daily, initial_daily_lift)

Variant == session.projection_df.Variant

NonDecreasing(s) == \A i \in 1..(Len(s) - 1) : FLe(s[i], s[i + 1])

SeriesEq(s, t) == Len(s) = Len(t) /\ \A i \in 1..Len(s) : FEq(s[i], t[i])

\* last element of a cumulative series minus the one before (0 if none)
LastIncrement(s) == FSub(Last(s), IF Len(s) > 1 THEN s[Len(s) - 1] ELSE Zero)

\* 2^-20
Tol20 == [s |-> 1, e |-> -72, m |-> <<0, 0, 0, 1024>>]

\* |a - b| <= 2^-20: equal as far as a six-decimal constant can tell
Near(a, b) == FLe(FAbs(FSub(a, b)), Tol20)

\* the number of significant metrics, with p < 0.05 written as 20 p < 1
SignificantCount(a) ==
    (IF a.p_cvr * 20 < 10000 /\ FLt(Zero, a.uplift_cvr) THEN 1 ELSE 0)
    + (IF a.p_abv * 20 < 10000 /\ FLt(Zero, a.uplift_abv) THEN 1 ELSE 0)

\* C1: the recommendation is ROLL_OUT when both metrics are significant
\* (p < 0.05 strictly and delta > 0), CAUTION when exactly one is,
\* DO_NOT_ROLL_OUT when neither is, and nothing else for any input.
C1_RecommendationTable ==
    rule_out # "none" =>
        /\ rule_out \in {"ROLL_OUT", "CAUTION", "DO_NOT_ROLL_OUT"}
        /\ (rule_out = "ROLL_OUT") = (SignificantCount(rule_args) = 2)
        /\ (rule_out = "CAUTION") = (SignificantCount(rule_args) = 1)
        /\ (rule_out = "DO_NOT_ROLL_OUT") = (SignificantCount(rule_args) = 0)

\* the rule has answered CAUTION for a rate p value of exactly 0.05 with a
\* positive uplift next to a significant value metric
C1_Witness ==
    /\ rule_out = "CAUTION"
    /\ rule_args.p_cvr = Alpha /\ FLt(Zero, rule_args.uplift_cvr)
    /\ rule_args.p_abv < Alpha /\ FLt(Zero, rule_args.uplift_abv)

\* the unpooled standard error of the rate difference
se_unpooled ==
    np_sqrt(FAdd(FDiv(FMul(rate_c, FSub(FInt(1), rate_c)), FInt(count_c)),
                 FDiv(FMul(rate_v, FSub(FInt(1), rate_v)), FInt(count_v))))

\* the statement's 1.959964
z_1959964 == FDiv(FInt(1959964), FInt(1000000))

\* C2: the 95% interval of the rate difference is
\* (rate_v - rate_c) -/+ 1.959964 * se_unpooled.  Stated up to 2^-20, what
\* the six decimals of the constant allow, and for the inputs with at
\* least one conversion in each arm, where p_pool is the plain pooled
\* rate, so that a violation is the interval's own.
C2_UnpooledInterval ==
    (Ran /\ Unclamped) =>
        /\ Near(session.ci_cvr_low,
                FSub(session.cvr_abs_uplift, FMul(z_1959964, se_unpooled)))
        /\ Near(session.ci_cvr_high,
                FAdd(session.cvr_abs_uplift, FMul(z_1959964, se_unpooled)))

\* C3: when either arm has fewer than 2 conversions (rate * visitors < 2)
\* or the value standard error is 0, the value test reports p = 1.0 and
\* the interval (0, 0).
C3_ValueGuard ==
    Ran =>
        ((\/ FLt(n_c, FInt(2))
          \/ FLt(n_v, FInt(2))
          \/ IsZero(se_pool_abv(FInt(widgets.baseline_std_dev),
                                baseline_conversions_test(rate_c, count_c),
                                FInt(widgets.variant_std_dev),
                                variant_conversions_test(rate_v, count_v))))
         => /\ session.p_value_abv = 10000
            /\ IsZero(session.ci_abv_low)
            /\ IsZero(session.ci_abv_high))

\* C4: the pooled rate is (rate_c * count_c + rate_v * count_v)
\* / (count_c + count_v) for every input, nothing clamped.
C4_PooledRate ==
    Ran =>
        FEq(p_pool(baseline_conversions_test(rate_c, count_c),
                   variant_conversions_test(rate_v, count_v),
                   count_c, count_v),
            FDiv(FAdd(n_c, n_v), FInt(count_c + count_v)))

\* C5 as stated: with decay_fraction = 0 the variant cumulative series at
\* day d equals (d + 1) * (base_daily + initial_daily_lift).
C5_NoDecayLinear ==
    (Ran /\ session.decay_rate_pct = 0) =>
        /\ Len(Variant) = widgets.forecast_period
        /\ \A d \in 0..(widgets.forecast_period - 1) :
              FEq(Variant[d + 1], FMul(FInt(d + 1), VariantDaily))

\* C5 amended: with decay_fraction = 0 the lift is constant over the
\* horizon: every day adds the same float base_daily + initial_daily_lift
\* to the running sum, so the series starts at that amount and each value
\* is the float sum of the one before and that amount.  The first two
\* values are exactly 1 and 2 times the amount; later ones are (d + 1)
\* times the amount only up to the rounding the running sum has
\* accumulated, for which no bound is stated.
C5_NoDecayConstantLift ==
    (Ran /\ session.decay_rate_pct = 0) =>
        /\ Len(Variant) = widgets.forecast_period
        /\ FEq(Variant[1], VariantDaily)
        /\ \A d \in 1..(widgets.forecast_period - 1) :
              FEq(Variant[d + 1], FAdd(Variant[d], VariantDaily))
        /\ widgets.forecast_period >= 2 =>
              FEq(Variant[2], FMul(FInt(2), VariantDaily))

\* a Run without decay, with a non-zero lift, over enough days for the
\* running sum to round away from the product on some day
C5_Witness ==
    /\ Ran /\ session.decay_rate_pct = 0
    /\ ~IsZero(initial_daily_lift)
    /\ \E d \in 1..(widgets.forecast_period - 1) :
          ~FEq(Variant[d + 1], FMul(FInt(d + 1), VariantDaily))

\* C6 as stated: with decay_fraction = 1.0 the last-day increment of the
\* variant cumulative series (the last value minus the one before, or
\* minus 0 on a one-day horizon) equals base_daily, for every horizon >= 1.
C6_FullDecayLastDay ==
    (Ran /\ session.decay_rate_pct = 100) =>
        FEq(LastIncrement(Variant), base_daily)

\* C6 amended: with decay_fraction = 1.0 and a horizon of at least two
\* days the lift applied on the final day is 0 and the final day adds
\* base_daily to the running sum: the last value is the float sum of the
\* one before and base_daily.  (The difference of the two stored values
\* is base_daily only up to the rounding of that sum.)  On a one-day
\* horizon no decay is applied and the only value is
\* base_daily + initial_daily_lift.
C6_FullDecayFinalDay ==
    (Ran /\ session.decay_rate_pct = 100) =>
        IF widgets.forecast_period >= 2
        THEN /\ IsZero(decayed_lift(initial_daily_lift,
                          decay_rate(widgets.decay_rate_pct),
                          daily_decay_factor(widgets.forecast_period,
                                             widgets.forecast_period - 1)))
             /\ FEq(Last(Variant),
                    FAdd(Variant[widgets.forecast_period - 1], base_daily))
        ELSE FEq(Last(Variant), VariantDaily)

\* a Run with full decay over at least two days with a non-zero lift,
\* where the difference of the last two stored values is not base_daily
C6_Witness ==
    /\ Ran /\ session.decay_rate_pct = 100
    /\ widgets.forecast_period >= 2
    /\ ~IsZero(initial_daily_lift)
    /\ ~FEq(LastIncrement(Variant), base_daily)

\* C7: the control, variant, lower-bound and upper-bound cumulative series
\* are all non-decreasing over the day index.  Stated for the inputs with
\* at least one conversion in each arm, where the confidence bounds rest
\* on the plain pooled rate.
C7_SeriesNonDecreasing ==
    (Ran /\ Unclamped) =>
        /\ NonDecreasing(session.projection_df.Control)
        /\ NonDecreasing(session.projection_df.Variant)
        /\ NonDecreasing(session.projection_df.Lower_Bound)
        /\ NonDecreasing(session.projection_df.Upper_Bound)

\* C8: when ci_low = ci_high = rate_v - rate_c, the lower-bound and the
\* upper-bound series equal the mean series at every day.
C8_ZeroWidthBand ==
    (/\ Ran
     /\ FEq(session.ci_cvr_low, session.cvr_abs_uplift)
     /\ FEq(session.ci_cvr_high, session.cvr_abs_uplift)) =>
        /\ SeriesEq(session.projection_df.Lower_Bound, Variant)
        /\ SeriesEq(session.projection_df.Upper_Bound, Variant)

\* C9: at every day the lower bound <= the mean <= the upper bound, and so
\* the final lower lift <= mean lift <= upper lift.
C9_BandBracketsMean ==
    Ran =>
        /\ \A i \in 1..widgets.forecast_period :
              /\ FLe(session.projection_df.Lower_Bound[i], Variant[i])
              /\ FLe(Variant[i], session.projection_df.Upper_Bound[i])
        /\ FLe(session.proj_revenue_diff_lower, session.proj_revenue_diff)
        /\ FLe(session.proj_revenue_diff, session.proj_revenue_diff_upper)

\* C10: once the script runs that a Run, a Reset or an input change sets
\* off have completed, the results are displayed exactly when a Run has
\* happened since the last Reset or session start; what is displayed
\* then, every session key and the recommendation, comes from that one
\* latest Run; and from the Reset on the session holds nothing of an
\* earlier Run.
C10_ResultsOfLatestRun ==
    /\ ~rerun => ((screen.view = "results") = (last_run # << >>))
    /\ last_run # << >> =>
          /\ ~rerun
          /\ session = Results(last_run[1])
          /\ screen = Render(Results(last_run[1]))
          /\ screen.recommendation
               = Recommendation(session.p_value_cvr, session.cvr_abs_uplift,
                                session.p_value_abv, session.abv_abs_uplift)
    /\ last_run = << >> =>
          /\ DOMAIN session \subseteq {"results_calculated"}
          /\ ~results_shown(session)
          /\ ~rerun => DOMAIN session = {"results_calculated"}

\* results of an earlier Run are on display after the inputs moved on to
\* values that would give another recommendation
C10_Witness ==
    /\ last_run # << >>
    /\ screen.view = "results"
    /\ widgets # last_run[1]
    /\ screen.recommendation # Render(Results(widgets)).recommendation

====
